---- MODULE Spec2Model ----
(***************************************************************************)
(* Model of the todo application: the todos table with its row level      *)
(* security policies and updated_at trigger (the migration), and the      *)
(* Todos page that loads, adds, toggles and deletes rows through the      *)
(* store client and keeps a local list in React state.                    *)
(***************************************************************************)
EXTENDS Integers, Sequences, FiniteSets, TLC

(* ---------------------------------------------------------------------- *)
(* Bounds                                                                  *)
(* ---------------------------------------------------------------------- *)
\* the page sends at most MaxSent requests, its first fetch included
MaxSent == 3
\* the table holds at most MaxRows rows when the page is mounted
MaxRows == 2
\* requests made directly to the store write rows until it reads MaxRawTime
MaxRawTime == 2
\* at most MaxInFlight requests of the view are awaiting their response
MaxInFlight == 2
\* the text typed into the input has at most MaxLen characters
MaxLen == 1
\* calls of signOut() the page has awaiting their continuation, at most
MaxSignOuts == 1

(* ---------------------------------------------------------------------- *)
(* Values                                                                  *)
(* ---------------------------------------------------------------------- *)
Users == {"u1", "u2"}
\* auth.uid() of a request that carries no session; on the page, user = null
Anon == "anon"
Callers == Users \cup {Anon}
\* SQL NULL in a nullable column
NULL == "NULL"
Chars == {" ", "a"}
Texts == UNION {[1..n -> Chars] : n \in 0..MaxLen}
\* titles offered to the store directly: an empty and a non-empty one
RawTitles == {<<>>, <<"a">>}
\* the ids a direct request may name
Ids == 1..MaxRawTime
\* a timestamp a client may try to write: one before every row's creation
OldTime == 0

VARIABLES
  rows,      \* public.todos: the set of stored rows
  nextId,    \* the id gen_random_uuid() hands out next
  now,       \* the store's clock: now() of the latest writing statement;
             \* every later statement reads a later time
  reply,     \* the answer to the latest request made directly to the store
  user,      \* useAuth().user of the page: the signed-in identity
  todos,     \* useState<Todo[]>: the local list
  newTodo,   \* useState(''): the input text
  loading,   \* useState(true)
  adding,    \* useState(false)
  reqs,      \* requests of the page awaiting their continuation
  sent,      \* the number of requests the page has sent
  toast,     \* the notification raised by the latest handler run
  log,       \* the console: the latest line written by console.error
  signOuts   \* the calls of signOut() awaiting their continuation: how many
             \* are not yet settled (sent) and how many have resolved (done)

storeVars == <<rows, nextId, now>>
viewVars == <<user, todos, newTodo, loading, adding, reqs, sent, toast, log,
              signOuts>>
vars == <<storeVars, reply, viewVars>>

(* ---------------------------------------------------------------------- *)
(* The store: table, policies, trigger                                     *)
(* ---------------------------------------------------------------------- *)
Columns == {"id", "user_id", "title", "description", "completed",
            "created_at", "updated_at"}

\* a column of a proposed row, or the column's default when it is omitted
Col(p, c, default) == IF c \in DOMAIN p THEN p[c] ELSE default

\* the row an INSERT proposes: omitted columns take the table's defaults
NewRow(p, id, t) ==
  [id |-> id,
   user_id |-> Col(p, "user_id", NULL),
   title |-> Col(p, "title", <<NULL>>),
   description |-> Col(p, "description", NULL),
   completed |-> Col(p, "completed", FALSE),
   created_at |-> Col(p, "created_at", t),
   updated_at |-> Col(p, "updated_at", t)]

\* NOT NULL on user_id and title, REFERENCES auth.users on user_id
Constraints(r) ==
  /\ r.user_id # NULL
  /\ r.user_id \in Users
  /\ r.title # <<NULL>>

\* auth.uid() = user_id; a comparison with a NULL uid is not true
OwnerIsCaller(caller, r) == caller # Anon /\ caller = r.user_id

\* the policies with their predicate left out
SelectPolicyOff(caller, r) == TRUE
InsertPolicyOff(caller, r) == TRUE
UpdatePolicyOff(caller, r) == TRUE

\* "Users can view their own todos" FOR SELECT USING
SelectPolicy(caller, r) == OwnerIsCaller(caller, r)
\* "Users can create their own todos" FOR INSERT WITH CHECK
InsertPolicy(caller, r) == OwnerIsCaller(caller, r)
\* "Users can update their own todos" FOR UPDATE USING; with no WITH CHECK
\* of its own, the same predicate is checked on the row as updated
UpdatePolicy(caller, r) == OwnerIsCaller(caller, r)
\* "Users can delete their own todos" FOR DELETE USING
DeletePolicy(caller, r) == OwnerIsCaller(caller, r)

\* the .eq() filters of a request: every column named must match
Match(flt, r) == \A c \in DOMAIN flt : r[c] = flt[c]

\* handle_updated_at: BEFORE UPDATE, NEW.updated_at = now()
HandleUpdatedAt(new, t) == [new EXCEPT !.updated_at = t]

\* the row an UPDATE writes for r: the patched columns, then the trigger
Patched(r, patch, t) ==
  HandleUpdatedAt([c \in Columns |->
                     IF c \in DOMAIN patch THEN patch[c] ELSE r[c]], t)

\* rows of a set, oldest created first
RECURSIVE OrderAsc(_)
OrderAsc(S) ==
  IF S = {} THEN <<>>
  ELSE LET m == CHOOSE r \in S :
                  \A q \in S : q.created_at > r.created_at
                               \/ (q.created_at = r.created_at /\ q.id >= r.id)
       IN <<m>> \o OrderAsc(S \ {m})

\* rows of a set, newest created first (created_at is distinct per row)
RECURSIVE OrderDesc(_)
OrderDesc(S) ==
  IF S = {} THEN <<>>
  ELSE LET m == CHOOSE r \in S :
                  \A q \in S : q.created_at < r.created_at
                               \/ (q.created_at = r.created_at /\ q.id <= r.id)
       IN <<m>> \o OrderDesc(S \ {m})

NoError == "none"
\* 42501: new row violates row-level security policy
RlsError == "42501"
\* 23502 / 23503: not-null or foreign key violation
ConstraintError == "23502"
\* 22P02: invalid input syntax for type uuid
InvalidTextError == "22P02"

\* SELECT * ... ORDER BY created_at DESC as caller
StoreSelect(tbl, caller, flt) ==
  [error |-> NoError,
   data |-> OrderDesc({r \in tbl : SelectPolicy(caller, r) /\ Match(flt, r)}),
   count |-> Cardinality({r \in tbl : SelectPolicy(caller, r) /\ Match(flt, r)}),
   rows |-> tbl]

\* INSERT ... RETURNING * as caller
StoreInsert(tbl, caller, p, id, t) ==
  LET new == NewRow(p, id, t) IN
  IF ~InsertPolicy(caller, new)
    THEN [error |-> RlsError, data |-> <<>>, count |-> 0, rows |-> tbl]
  ELSE IF ~Constraints(new)
    THEN [error |-> ConstraintError, data |-> <<>>, count |-> 0, rows |-> tbl]
  ELSE [error |-> NoError, data |-> <<new>>, count |-> 1,
        rows |-> tbl \cup {new}]

\* UPDATE ... SET patch WHERE filters as caller
StoreUpdate(tbl, caller, flt, patch, t) ==
  LET hit == {r \in tbl : UpdatePolicy(caller, r) /\ Match(flt, r)}
      new == {Patched(r, patch, t) : r \in hit}
  IN
  IF \E r \in new : ~UpdatePolicy(caller, r)
    THEN [error |-> RlsError, data |-> <<>>, count |-> 0, rows |-> tbl]
  ELSE IF \E r \in new : ~Constraints(r)
    THEN [error |-> ConstraintError, data |-> <<>>, count |-> 0, rows |-> tbl]
  ELSE [error |-> NoError, data |-> <<>>, count |-> Cardinality(hit),
        rows |-> (tbl \ hit) \cup new]

\* DELETE ... WHERE filters as caller
StoreDelete(tbl, caller, flt) ==
  LET hit == {r \in tbl : DeletePolicy(caller, r) /\ Match(flt, r)} IN
  [error |-> NoError, data |-> <<>>, count |-> Cardinality(hit),
   rows |-> tbl \ hit]

(* ---------------------------------------------------------------------- *)
(* Requests made directly to the store by any client                       *)
(* ---------------------------------------------------------------------- *)
Restrict(f, D) == [c \in D |-> f[c]]

\* any combination of .eq('id', ..) and .eq('user_id', ..), sent or omitted
Filters ==
  {Restrict(f, D) : f \in [id : Ids, user_id : Users],
                    D \in SUBSET {"id", "user_id"}}
\* the columns an insert may supply
Proposals ==
  {Restrict(f, D) : f \in [user_id : Users, title : RawTitles,
                           completed : {TRUE}],
                    D \in SUBSET {"user_id", "title", "completed"}}
\* the column an update may set
Patches ==
  {Restrict(f, D) : f \in [user_id : Users, completed : BOOLEAN,
                           updated_at : {OldTime}],
                    D \in {{"completed"}, {"user_id"}, {"updated_at"}}}

\* a time the clock of the store does not reach
LateTime == MaxRawTime + 1

\* an insert that also supplies created_at or updated_at, which the table
\* accepts in place of the DEFAULT now()
StampedProposals ==
  {Restrict(f, D \cup {"user_id", "title"}) :
     f \in [user_id : Users, title : {<<"a">>},
            created_at : {LateTime}, updated_at : {LateTime}],
     D \in SUBSET {"created_at", "updated_at"}}

NoReply ==
  [op |-> "none", caller |-> Anon, flt |-> <<>>, arg |-> <<>>,
   error |-> NoError, data |-> <<>>, count |-> 0]

\* the request and the answer to it: error, returned rows, rows affected
Answer(op, caller, flt, arg, res) ==
  [op |-> op, caller |-> caller, flt |-> flt, arg |-> arg,
   error |-> res.error, data |-> res.data, count |-> res.count]

RawSelect(caller, flt) ==
  LET res == StoreSelect(rows, caller, flt) IN
  /\ reply' = Answer("select", caller, flt, <<>>, res)
  /\ UNCHANGED <<storeVars, viewVars>>

RawInsert(caller, p) ==
  LET res == StoreInsert(rows, caller, p, nextId, now + 1) IN
  /\ now < MaxRawTime
  /\ reply' = Answer("insert", caller, <<>>, p, res)
  /\ rows' = res.rows
  /\ nextId' = IF res.error = NoError THEN nextId + 1 ELSE nextId
  /\ now' = IF res.error = NoError THEN now + 1 ELSE now
  /\ UNCHANGED viewVars

RawUpdate(caller, flt, patch) ==
  LET res == StoreUpdate(rows, caller, flt, patch, now + 1) IN
  /\ now < MaxRawTime
  /\ reply' = Answer("update", caller, flt, patch, res)
  /\ rows' = res.rows
  /\ now' = IF res.count > 0 THEN now + 1 ELSE now
  /\ UNCHANGED <<nextId, viewVars>>

RawDelete(caller, flt) ==
  LET res == StoreDelete(rows, caller, flt) IN
  /\ reply' = Answer("delete", caller, flt, <<>>, res)
  /\ rows' = res.rows
  /\ UNCHANGED <<nextId, now, viewVars>>

(* ---------------------------------------------------------------------- *)
(* The Todos page                                                          *)
(* ---------------------------------------------------------------------- *)
NoToast == "none"
NoLog == "none"

IsSpace(c) == c = " "

\* String.prototype.trim: drop leading and trailing white space
RECURSIVE TrimStart(_)
TrimStart(s) ==
  IF s # <<>> /\ IsSpace(Head(s)) THEN TrimStart(Tail(s)) ELSE s

RECURSIVE TrimEnd(_)
TrimEnd(s) ==
  IF s # <<>> /\ IsSpace(s[Len(s)])
    THEN TrimEnd(SubSeq(s, 1, Len(s) - 1)) ELSE s

\* the text taken as typed
TrimNone(s) == s

Trim(s) == TrimEnd(TrimStart(s))

\* a request of the page: what the call sent, what its continuation closed
\* over (uid, list), and, once answered, the result it awaits
Request(op, id, completed, title) ==
  [op |-> op, id |-> id, completed |-> completed, title |-> title,
   uid |-> user, list |-> todos,
   stage |-> "sent", outcome |-> "none", data |-> <<>>, count |-> 0]

\* the sequence without its i-th element
Without(s, i) == SubSeq(s, 1, i - 1) \o SubSeq(s, i + 1, Len(s))

\* todos.map(todo => todo.id === id ? {...todo, completed: !completed} : todo)
MapToggle(list, id, completed) ==
  [i \in 1..Len(list) |->
     IF list[i].id = id THEN [list[i] EXCEPT !.completed = ~completed]
     ELSE list[i]]

\* todos.filter(todo => todo.id !== id)
RECURSIVE FilterOut(_, _)
FilterOut(list, id) ==
  IF list = <<>> THEN <<>>
  ELSE IF Head(list).id = id THEN FilterOut(Tail(list), id)
  ELSE <<Head(list)>> \o FilterOut(Tail(list), id)

\* the fetch started by the effect for identity u
FetchRequest(u) ==
  [op |-> "fetch", id |-> 0, completed |-> FALSE, title |-> <<>>,
   uid |-> u, list |-> <<>>,
   stage |-> "sent", outcome |-> "none", data |-> <<>>, count |-> 0]

\* an identity change that puts the page back into Loading
AuthChangeLoading(u) ==
  /\ user' = u
  /\ IF u # Anon
       THEN /\ Len(reqs) < MaxInFlight
            /\ sent < MaxSent
            /\ reqs' = Append(reqs, FetchRequest(u))
            /\ sent' = sent + 1
       ELSE UNCHANGED <<reqs, sent>>
  /\ loading' = TRUE
  /\ UNCHANGED <<signOuts, storeVars, reply, todos, newTodo, adding, toast,
                 log>>

\* useEffect(..., [user]): the identity changes and, if (user), the list is
\* fetched again; with no user (Anon) nothing is fetched; loading is left
\* as it is
AuthChange(u) ==
  /\ user' = u
  /\ IF u # Anon
       THEN /\ Len(reqs) < MaxInFlight
            /\ sent < MaxSent
            /\ reqs' = Append(reqs, FetchRequest(u))
            /\ sent' = sent + 1
       ELSE UNCHANGED <<reqs, sent>>
  /\ UNCHANGED <<signOuts, storeVars, reply, todos, newTodo, loading, adding,
                 toast, log>>

\* the identity useAuth() yields once signOut() has resolved: no user
SignedOut == Anon

\* handleSignOut up to its await: signOut() is called
SignOut ==
  /\ ~loading
  /\ signOuts.sent + signOuts.done < MaxSignOuts
  /\ signOuts' = [signOuts EXCEPT !.sent = @ + 1]
  /\ UNCHANGED <<storeVars, reply, user, todos, newTodo, loading, adding,
                 reqs, sent, toast, log>>

\* a pending signOut() resolves: the identity is gone, and the effect, run
\* with no user, fetches nothing
ExecSignOut ==
  /\ signOuts.sent > 0
  /\ signOuts' = [sent |-> signOuts.sent - 1, done |-> signOuts.done + 1]
  /\ user' = SignedOut
  /\ UNCHANGED <<storeVars, reply, todos, newTodo, loading, adding, reqs,
                 sent, toast, log>>

\* handleSignOut after its await, signOut() resolved: the success toast
RespondSignOut ==
  /\ signOuts.done > 0
  /\ signOuts' = [signOuts EXCEPT !.done = @ - 1]
  /\ toast' = "Signed out successfully!"
  /\ UNCHANGED <<storeVars, reply, user, todos, newTodo, loading, adding,
                 reqs, sent, log>>

\* a pending signOut() rejects and the catch of handleSignOut logs
FailSignOut ==
  /\ signOuts.sent > 0
  /\ signOuts' = [signOuts EXCEPT !.sent = @ - 1]
  /\ log' = "Error signing out:"
  /\ UNCHANGED <<storeVars, reply, user, todos, newTodo, loading, adding,
                 reqs, sent, toast>>

\* onChange of the input
SetNewTodo(t) ==
  /\ ~loading
  /\ newTodo' = t
  /\ UNCHANGED <<signOuts, storeVars, reply, user, todos, loading, adding,
                 reqs, sent,
                 toast, log>>

\* addTodo with a submit button that is never disabled
AddTodoEnabled ==
  /\ ~loading
  /\ IF Trim(newTodo) = <<>>
       THEN /\ toast' = "Please enter a todo title"
            /\ UNCHANGED <<adding, reqs, sent>>
       ELSE /\ Len(reqs) < MaxInFlight
            /\ sent < MaxSent
            /\ sent' = sent + 1
            /\ adding' = TRUE
            /\ reqs' = Append(reqs, Request("add", 0, FALSE, Trim(newTodo)))
            /\ toast' = NoToast
  /\ UNCHANGED <<signOuts, storeVars, reply, user, todos, newTodo, loading,
                 log>>

\* addTodo up to its await; the form cannot be submitted while its button
\* is disabled={adding}
AddTodo ==
  /\ ~loading
  /\ ~adding
  /\ IF Trim(newTodo) = <<>>
       THEN /\ toast' = "Please enter a todo title"
            /\ UNCHANGED <<adding, reqs, sent>>
       ELSE /\ Len(reqs) < MaxInFlight
            /\ sent < MaxSent
            /\ sent' = sent + 1
            /\ adding' = TRUE
            /\ reqs' = Append(reqs, Request("add", 0, FALSE, Trim(newTodo)))
            /\ toast' = NoToast
  /\ UNCHANGED <<signOuts, storeVars, reply, user, todos, newTodo, loading,
                 log>>

\* toggleTodo(todo.id, todo.completed) up to its await
ToggleTodo(i) ==
  /\ ~loading
  /\ i \in 1..Len(todos)
  /\ Len(reqs) < MaxInFlight
  /\ sent < MaxSent
  /\ sent' = sent + 1
  /\ reqs' = Append(reqs, Request("toggle", todos[i].id, todos[i].completed,
                                  <<>>))
  /\ toast' = NoToast
  /\ UNCHANGED <<signOuts, storeVars, reply, user, todos, newTodo, loading,
                 adding, log>>

\* deleteTodo(todo.id) up to its await
DeleteTodo(i) ==
  /\ ~loading
  /\ i \in 1..Len(todos)
  /\ Len(reqs) < MaxInFlight
  /\ sent < MaxSent
  /\ sent' = sent + 1
  /\ reqs' = Append(reqs, Request("delete", todos[i].id, FALSE, <<>>))
  /\ toast' = NoToast
  /\ UNCHANGED <<signOuts, storeVars, reply, user, todos, newTodo, loading,
                 adding, log>>

\* what the store answers to the request r of the page; without a user,
\* user?.id is undefined: the insert sends no user_id, and
\* .eq('user_id', undefined) is not a uuid
Served(r) ==
  CASE r.op = "add" ->
         StoreInsert(rows, r.uid,
                     IF r.uid = Anon
                       THEN [title |-> r.title, completed |-> FALSE]
                       ELSE [title |-> r.title, user_id |-> r.uid,
                             completed |-> FALSE],
                     nextId, now + 1)
    [] r.op # "add" /\ r.uid = Anon ->
         [error |-> InvalidTextError, data |-> <<>>, count |-> 0,
          rows |-> rows]
    [] r.op = "fetch" /\ r.uid # Anon ->
         StoreSelect(rows, r.uid, [user_id |-> r.uid])
    [] r.op = "toggle" /\ r.uid # Anon ->
         StoreUpdate(rows, r.uid, [id |-> r.id, user_id |-> r.uid],
                     [completed |-> ~r.completed], now + 1)
    [] r.op = "delete" /\ r.uid # Anon ->
         StoreDelete(rows, r.uid, [id |-> r.id, user_id |-> r.uid])

\* the store executes the k-th request in flight and answers it
Exec(k) ==
  /\ k \in 1..Len(reqs)
  /\ reqs[k].stage = "sent"
  /\ LET r == reqs[k]
         res == Served(r)
     IN /\ rows' = res.rows
        /\ now' = IF res.rows # rows /\ r.op \in {"add", "toggle"}
                    THEN now + 1 ELSE now
        /\ nextId' = IF r.op = "add" /\ res.error = NoError
                       THEN nextId + 1 ELSE nextId
        /\ reqs' = [reqs EXCEPT ![k] =
                      [r EXCEPT !.stage = "done",
                                !.outcome = IF res.error = NoError
                                              THEN "ok" ELSE "error",
                                !.data = res.data,
                                !.count = res.count]]
  /\ UNCHANGED <<signOuts, reply, user, todos, newTodo, loading, adding,
                 sent, toast,
                 log>>

\* fetchTodos with setLoading(false) at the end of the try block
ResumeFetchNoFinally(r) ==
  /\ CASE r.outcome = "error" ->
            /\ toast' = "Failed to fetch todos"
            /\ log' = "Error fetching todos:"
            /\ loading' = FALSE
            /\ UNCHANGED todos
       [] r.outcome = "ok" ->
            /\ todos' = r.data
            /\ toast' = NoToast
            /\ loading' = FALSE
            /\ UNCHANGED log
       [] r.outcome = "throw" ->
            /\ log' = "Error fetching todos:"
            /\ toast' = NoToast
            /\ UNCHANGED <<todos, loading>>
  /\ UNCHANGED <<newTodo, adding>>

\* fetchTodos after its await
ResumeFetch(r) ==
  /\ CASE r.outcome = "error" ->
            /\ toast' = "Failed to fetch todos"
            /\ log' = "Error fetching todos:"
            /\ UNCHANGED todos
       [] r.outcome = "ok" ->
            /\ todos' = r.data
            /\ toast' = NoToast
            /\ UNCHANGED log
       [] r.outcome = "throw" ->
            /\ log' = "Error fetching todos:"
            /\ toast' = NoToast
            /\ UNCHANGED todos
  /\ loading' = FALSE
  /\ UNCHANGED <<newTodo, adding>>

\* addTodo clearing the input whatever the result
ResumeAddClearing(r) ==
  /\ todos' = IF r.outcome = "ok" THEN <<r.data[1]>> \o r.list ELSE todos
  /\ newTodo' = <<>>
  /\ toast' = CASE r.outcome = "ok" -> "Todo added successfully!"
                 [] r.outcome = "error" -> "Failed to add todo"
                 [] r.outcome = "throw" -> NoToast
  /\ log' = IF r.outcome = "ok" THEN log ELSE "Error adding todo:"
  /\ adding' = FALSE
  /\ UNCHANGED loading

\* addTodo putting the new row behind the list
ResumeAddAppending(r) ==
  /\ todos' = IF r.outcome = "ok" THEN r.list \o <<r.data[1]>> ELSE todos
  /\ newTodo' = IF r.outcome = "ok" THEN <<>> ELSE newTodo
  /\ toast' = CASE r.outcome = "ok" -> "Todo added successfully!"
                 [] r.outcome = "error" -> "Failed to add todo"
                 [] r.outcome = "throw" -> NoToast
  /\ log' = IF r.outcome = "ok" THEN log ELSE "Error adding todo:"
  /\ adding' = FALSE
  /\ UNCHANGED loading

\* addTodo after its await
ResumeAdd(r) ==
  /\ CASE r.outcome = "error" ->
            /\ toast' = "Failed to add todo"
            /\ log' = "Error adding todo:"
            /\ UNCHANGED <<todos, newTodo>>
       [] r.outcome = "ok" ->
            /\ todos' = <<r.data[1]>> \o r.list
            /\ newTodo' = <<>>
            /\ toast' = "Todo added successfully!"
            /\ UNCHANGED log
       [] r.outcome = "throw" ->
            /\ log' = "Error adding todo:"
            /\ toast' = NoToast
            /\ UNCHANGED <<todos, newTodo>>
  /\ adding' = FALSE
  /\ UNCHANGED loading

\* toggleTodo after its await
ResumeToggle(r) ==
  /\ CASE r.outcome = "error" ->
            /\ toast' = "Failed to update todo"
            /\ log' = "Error updating todo:"
            /\ UNCHANGED todos
       [] r.outcome = "ok" ->
            /\ todos' = MapToggle(r.list, r.id, r.completed)
            /\ toast' = NoToast
            /\ UNCHANGED log
       [] r.outcome = "throw" ->
            /\ log' = "Error updating todo:"
            /\ toast' = NoToast
            /\ UNCHANGED todos
  /\ UNCHANGED <<newTodo, loading, adding>>

\* deleteTodo after its await
ResumeDelete(r) ==
  /\ CASE r.outcome = "error" ->
            /\ toast' = "Failed to delete todo"
            /\ log' = "Error deleting todo:"
            /\ UNCHANGED todos
       [] r.outcome = "ok" ->
            /\ todos' = FilterOut(r.list, r.id)
            /\ toast' = "Todo deleted successfully!"
            /\ UNCHANGED log
       [] r.outcome = "throw" ->
            /\ log' = "Error deleting todo:"
            /\ toast' = NoToast
            /\ UNCHANGED todos
  /\ UNCHANGED <<newTodo, loading, adding>>

\* the continuation of request r runs
Resume(r) ==
  CASE r.op = "fetch" -> ResumeFetch(r)
    [] r.op = "add" -> ResumeAdd(r)
    [] r.op = "toggle" -> ResumeToggle(r)
    [] r.op = "delete" -> ResumeDelete(r)

\* the answer of the store to the k-th request in flight arrives and the
\* request's continuation runs on it
Respond(k) ==
  /\ k \in 1..Len(reqs)
  /\ reqs[k].stage = "done"
  /\ Resume(reqs[k])
  /\ reqs' = Without(reqs, k)
  /\ UNCHANGED <<signOuts, storeVars, reply, user, sent>>

\* the k-th request in flight fails without reaching the table, and its
\* continuation runs on the failure: the client returns an error result
\* (kind "error") or the awaited call throws (kind "throw")
Fail(k, kind) ==
  /\ k \in 1..Len(reqs)
  /\ reqs[k].stage = "sent"
  /\ kind \in {"error", "throw"}
  /\ Resume([reqs[k] EXCEPT !.stage = "done", !.outcome = kind])
  /\ reqs' = Without(reqs, k)
  /\ UNCHANGED <<signOuts, storeVars, reply, user, sent>>

(* ---------------------------------------------------------------------- *)
(* Specifications                                                          *)
(* ---------------------------------------------------------------------- *)
\* the page as mounted for the signed-in user u, its first fetch on the way
Mounted(u) ==
  /\ user = u
  /\ todos = <<>>
  /\ newTodo = <<>>
  /\ loading = TRUE
  /\ adding = FALSE
  /\ reqs = IF u # Anon THEN <<FetchRequest(u)>> ELSE <<>>
  /\ sent = IF u # Anon THEN 1 ELSE 0
  /\ toast = NoToast
  /\ log = NoLog
  /\ signOuts = [sent |-> 0, done |-> 0]

\* the table after n inserts made the way the page makes them, the i-th by
\* the user owner[i] at time i
Inserted(owner) ==
  {NewRow([title |-> <<"a">>, user_id |-> owner[i], completed |-> FALSE],
          i, i) : i \in DOMAIN owner}

\* the migrated, still empty table; the page mounted and left alone
InitStore ==
  /\ rows = {}
  /\ nextId = 1
  /\ now = 0
  /\ reply = NoReply
  /\ Mounted("u1")

\* a table that earlier sessions have filled; the page mounted for u1
Init ==
  /\ \E n \in 0..MaxRows : \E owner \in [1..n -> Users] :
       /\ rows = Inserted(owner)
       /\ nextId = n + 1
       /\ now = n
  /\ reply = NoReply
  /\ Mounted("u1")

\* the store under requests of arbitrary clients
NextStore ==
  \/ \E c \in Callers, f \in Filters : RawSelect(c, f)
  \/ \E c \in Callers, p \in Proposals : RawInsert(c, p)
  \/ \E c \in Callers, f \in Filters, p \in Patches : RawUpdate(c, f, p)
  \/ \E c \in Callers, f \in Filters : RawDelete(c, f)

SpecStore == InitStore /\ [][NextStore]_vars

\* the store under clients that write the timestamp columns too
NextStamped ==
  \/ \E c \in Users, p \in StampedProposals : RawInsert(c, p)
  \/ \E c \in Callers, f \in Filters, p \in Patches : RawUpdate(c, f, p)
  \/ \E c \in Callers, f \in Filters : RawDelete(c, f)

SpecStamped == InitStore /\ [][NextStamped]_vars

\* the positions a list of the page can have
Positions == 1..(MaxRows + MaxSent)

\* one page of one user, alone on the store
NextSingle ==
  \/ \E t \in Texts : SetNewTodo(t)
  \/ AddTodo
  \/ \E i \in Positions : ToggleTodo(i)
  \/ \E i \in Positions : DeleteTodo(i)
  \/ \E k \in 1..MaxInFlight : Exec(k)
  \/ \E k \in 1..MaxInFlight, kind \in {"error", "throw"} : Fail(k, kind)
  \/ \E k \in 1..MaxInFlight : Respond(k)

Spec == Init /\ [][NextSingle]_vars

\* another session of user u deletes the todo id the way the page does
ElsewhereDelete(u, id) ==
  LET res == StoreDelete(rows, u, [id |-> id, user_id |-> u]) IN
  /\ res.count > 0
  /\ rows' = res.rows
  /\ UNCHANGED <<nextId, now, reply, viewVars>>

\* the page, and other sessions at work on the store
NextShared ==
  \/ NextSingle
  \/ \E u \in Users, id \in Positions : ElsewhereDelete(u, id)

SpecShared == Init /\ [][NextShared]_vars

\* the page while the identity may change under it or be signed out; what
\* is typed is one text
NextAuth ==
  \/ SetNewTodo(<<"a">>)
  \/ AddTodo
  \/ \E i \in Positions : ToggleTodo(i)
  \/ \E i \in Positions : DeleteTodo(i)
  \/ \E k \in 1..MaxInFlight : Exec(k)
  \/ \E k \in 1..MaxInFlight, kind \in {"error", "throw"} : Fail(k, kind)
  \/ \E k \in 1..MaxInFlight : Respond(k)
  \/ SignOut
  \/ ExecSignOut
  \/ RespondSignOut
  \/ FailSignOut
  \/ \E u \in Callers : AuthChange(u)

\* a table in which each user has one todo; the page rendered for u1 or with
\* nobody signed in
InitAuth ==
  /\ rows = Inserted(<<"u1", "u2">>)
  /\ nextId = 3
  /\ now = 2
  /\ reply = NoReply
  /\ \E u \in {"u1", Anon} : Mounted(u)

SpecAuth == InitAuth /\ [][NextAuth]_vars

\* the page alone on the store; what is typed is one text
NextTyped ==
  \/ SetNewTodo(<<"a">>)
  \/ AddTodo
  \/ \E i \in Positions : ToggleTodo(i)
  \/ \E i \in Positions : DeleteTodo(i)
  \/ \E k \in 1..MaxInFlight : Exec(k)
  \/ \E k \in 1..MaxInFlight, kind \in {"error", "throw"} : Fail(k, kind)
  \/ \E k \in 1..MaxInFlight : Respond(k)

\* a request in flight makes a step: the store executes it, or it fails on
\* the way, or its answer arrives and its continuation runs
Completes ==
  \/ \E k \in 1..MaxInFlight : Exec(k)
  \/ \E k \in 1..MaxInFlight, kind \in {"error", "throw"} : Fail(k, kind)
  \/ \E k \in 1..MaxInFlight : Respond(k)

\* that page when the requests in flight are not left waiting for ever
SpecLive == Init /\ [][NextTyped]_vars /\ WF_vars(Completes)

(* ---------------------------------------------------------------------- *)
(* Properties of the store                                                 *)
(* ---------------------------------------------------------------------- *)
OwnedBy(tbl, u) == {r \in tbl : r.user_id = u}

\* the latest direct request named the id of a row of another user and sent
\* no owner filter
NamesForeignRow ==
  /\ reply.caller \in Users
  /\ "id" \in DOMAIN reply.flt
  /\ "user_id" \notin DOMAIN reply.flt
  /\ \E r \in rows : r.id = reply.flt.id /\ r.user_id # reply.caller

\* C1: a list performed as B never returns a row owned by another user A,
\* whatever filters it sends; when B owns no row the list is empty.
C1_ListIsolation ==
  reply.op = "select" =>
    /\ \A i \in 1..Len(reply.data) : reply.data[i].user_id = reply.caller
    /\ OwnedBy(rows, reply.caller) = {} => reply.data = <<>>

\* C1 witness: a list without owner filter, made by a user who owns nothing
\* while another user's rows are stored, came back empty
C1_Witness ==
  /\ reply.op = "select"
  /\ reply.caller \in Users
  /\ "user_id" \notin DOMAIN reply.flt
  /\ rows # {}
  /\ OwnedBy(rows, reply.caller) = {}
  /\ reply.data = <<>>

\* C2: an update or delete issued by caller B leaves the rows owned by any
\* other user A exactly as they were, whatever filter B sends or omits.
C2_ForeignRowsUntouched ==
  [][reply'.op \in {"update", "delete"} =>
       \A a \in Users : a # reply'.caller =>
          OwnedBy(rows', a) = OwnedBy(rows, a)]_vars

\* C2 witness: an update that named another user's row by id, with no owner
\* filter, was answered and the row is still stored
C2_Witness ==
  /\ reply.op = "update"
  /\ NamesForeignRow

\* C3: an insert whose proposed owner is not the caller is rejected and
\* stores nothing; a row that appears is owned by the caller of the insert;
\* no request changes the owner of a stored row.
C3_OwnerIsCreator ==
  [][/\ (reply'.op = "insert"
           /\ Col(reply'.arg, "user_id", NULL) # reply'.caller)
          => (reply'.error # NoError /\ rows' = rows)
     /\ \A r \in rows' : (\A q \in rows : q.id # r.id) =>
          (reply'.op = "insert" /\ r.user_id = reply'.caller)
     /\ \A q \in rows, r \in rows' : q.id = r.id => r.user_id = q.user_id
    ]_vars

\* C3 witness: the owner of a stored row tried to hand it to another user
\* and the update was rejected
C3_Witness ==
  /\ reply.op = "update"
  /\ "user_id" \in DOMAIN reply.arg
  /\ reply.arg.user_id # reply.caller
  /\ \E r \in OwnedBy(rows, reply.caller) : Match(reply.flt, r)
  /\ reply.error = RlsError

\* C4 as stated: an update or delete whose target id matches no row owned by
\* the caller is answered with an error, never as a success on zero rows.
C4_MissingTargetRejected ==
  (/\ reply.op \in {"update", "delete"}
   /\ "id" \in DOMAIN reply.flt
   /\ reply.count = 0
   /\ ~\E r \in OwnedBy(rows, reply.caller) : r.id = reply.flt.id)
  => reply.error # NoError

(* ---------------------------------------------------------------------- *)
(* Properties of the page                                                  *)
(* ---------------------------------------------------------------------- *)
IdsOf(list) == {list[i].id : i \in 1..Len(list)}

\* the notification that describes the failure of a request
FailToast(op) ==
  CASE op = "fetch" -> "Failed to fetch todos"
    [] op = "add" -> "Failed to add todo"
    [] op = "toggle" -> "Failed to update todo"
    [] op = "delete" -> "Failed to delete todo"

\* this step runs the continuation of the k-th request on a failure
HandlesFailure(k) ==
  /\ k \in 1..Len(reqs)
  /\ reqs' = Without(reqs, k)
  /\ \/ reqs[k].stage = "sent"
     \/ reqs[k].stage = "done" /\ reqs[k].outcome # "ok"

\* this step runs the continuation of the k-th request on a success
HandlesSuccess(k) ==
  /\ k \in 1..Len(reqs)
  /\ reqs' = Without(reqs, k)
  /\ reqs[k].stage = "done"
  /\ reqs[k].outcome = "ok"

\* the list as it is after the effect of the answered request r on it
Effect(r, list) ==
  CASE r.op = "add" -> <<r.data[1]>> \o list
    [] r.op = "toggle" -> MapToggle(list, r.id, r.completed)
    [] r.op = "delete" -> FilterOut(list, r.id)

\* the local list holds exactly the user's stored rows, flags as stored
InSync ==
  /\ IdsOf(todos) = {r.id : r \in OwnedBy(rows, user)}
  /\ Len(todos) = Cardinality(IdsOf(todos))
  /\ \A i \in 1..Len(todos) : \A r \in rows :
       r.id = todos[i].id => r.completed = todos[i].completed

\* C5 as stated: whenever no request of the page is in flight and no request
\* has failed so far, the local list holds exactly the ids of the user's
\* stored rows, each with the stored completed flag.
C5_ListInSync == (reqs = <<>> /\ log = NoLog) => InSync

\* since request r was sent, one mutation of another row has been applied to
\* the local list: a row added in front, a flag flipped, or a row removed,
\* of the pairs toggle/toggle, toggle/delete, add/toggle, add/delete
OtherRowApplied(r) ==
  LET target == IF r.op = "add" THEN r.data[1].id ELSE r.id IN
  \/ /\ r.op \in {"toggle", "delete"}
     /\ todos # <<>>
     /\ Tail(todos) = r.list
     /\ Head(todos).id \notin IdsOf(r.list) \cup {target}
  \/ /\ r.op \in {"add", "toggle", "delete"}
     /\ \E j \in IdsOf(r.list) \ {target} :
          /\ todos # r.list
          /\ \E c \in BOOLEAN : todos = MapToggle(r.list, j, c)
  \/ /\ r.op \in {"add", "toggle"}
     /\ \E j \in IdsOf(r.list) \ {target} : todos = FilterOut(r.list, j)

\* C6 as stated: when a mutation succeeds while a mutation of another row,
\* in flight at the same time, has succeeded and been applied, the local
\* list afterwards shows the effect of both.
C6_DifferentRowsSafe ==
  [][\A k \in 1..Len(reqs) :
       (/\ HandlesSuccess(k)
        /\ reqs[k].op \in {"add", "toggle", "delete"}
        /\ OtherRowApplied(reqs[k]))
       => todos' = Effect(reqs[k], todos)]_vars

\* C7: when a load, add, toggle or delete ends in failure, by an error result
\* or by an exception, the step that handles it leaves the local list as it
\* was, and a failed add leaves the input text as it was.
C7_FailureKeepsState ==
  [][\A k \in 1..Len(reqs) :
       HandlesFailure(k) =>
         /\ todos' = todos
         /\ reqs[k].op = "add" => newTodo' = newTodo]_vars

\* C7 witness: an add has failed; the typed text is still in the input and
\* the loaded list is still shown
C7_Witness ==
  /\ toast = "Failed to add todo"
  /\ log = "Error adding todo:"
  /\ reqs = <<>>
  /\ Trim(newTodo) # <<>>
  /\ todos # <<>>

\* C8 as stated: a toggle or delete of an item of the local list whose row the
\* store no longer held when the request ran raises the failure notification
\* and leaves the local list unchanged.
C8_StaleItemFails ==
  [][\A k \in 1..Len(reqs) :
       (/\ reqs' = Without(reqs, k)
        /\ reqs[k].stage = "done"
        /\ reqs[k].op \in {"toggle", "delete"}
        /\ reqs[k].count = 0
        /\ reqs[k].id \in IdsOf(todos))
       => (toast' = FailToast(reqs[k].op) /\ todos' = todos)]_vars

\* C9 as stated: every failed load, add, toggle or delete, failed by an error
\* result or by an exception, raises the notification describing the failed
\* action, and the page is usable afterwards.
C9_FailureNotified ==
  [][\A k \in 1..Len(reqs) :
       HandlesFailure(k) =>
         /\ toast' = FailToast(reqs[k].op)
         /\ ~loading'
         /\ reqs[k].op = "add" => ~adding']_vars

\* a text that is empty or white space only
Blank(s) == \A i \in 1..Len(s) : s[i] = " "

\* C10: submitting a text that is empty or white space only sends no
\* request, leaves the stored rows and the local list unchanged and does not
\* disable the submit control.
C10_BlankRejected ==
  [][(AddTodo /\ Blank(newTodo)) =>
       /\ reqs' = reqs
       /\ sent' = sent
       /\ rows' = rows
       /\ todos' = todos
       /\ adding' = FALSE]_vars

\* C10 witness: a submit of white space was refused with its notification,
\* nothing in flight and the submit control enabled
C10_Witness ==
  /\ toast = "Please enter a todo title"
  /\ newTodo # <<>>
  /\ Blank(newTodo)
  /\ reqs = <<>>
  /\ ~adding

\* the store answers, in this step, the add request of the page in flight at
\* position k with a row
AddServed(k) ==
  /\ k \in 1..Len(reqs)
  /\ Len(reqs') = Len(reqs)
  /\ reqs[k].op = "add"
  /\ reqs[k].stage = "sent"
  /\ reqs'[k].stage = "done"
  /\ reqs'[k].outcome = "ok"

\* C11: the row a successful add returns is the row the store has just
\* stored, with an id no stored row had, completed = false, created_at and
\* updated_at both the time the store read for the insert, and the text
\* submitted, which has no space at either end, as its title; the
\* continuation makes that row the first element of the local list, the
\* list the handler started from behind it, and clears the input.
C11_AddedRowFirst ==
  [][/\ \A k \in 1..MaxInFlight : AddServed(k) =>
          LET d == reqs'[k].data[1] IN
          /\ rows' = rows \cup {d}
          /\ \A r \in rows : r.id # d.id
          /\ d.completed = FALSE
          /\ d.created_at = now' /\ d.updated_at = now' /\ now' > now
          /\ d.user_id = reqs[k].uid
          /\ d.title = reqs[k].title
          /\ d.title # <<>>
          /\ d.title[1] # " " /\ d.title[Len(d.title)] # " "
     /\ \A k \in 1..MaxInFlight :
          (HandlesSuccess(k) /\ reqs[k].op = "add") =>
            /\ todos' # <<>>
            /\ Head(todos') = reqs[k].data[1]
            /\ Tail(todos') = reqs[k].list
            /\ newTodo' = <<>>]_vars

\* an add has succeeded on a list that was not empty: the stored row it made
\* is the first item, and the input is empty
C11_Witness ==
  /\ toast = "Todo added successfully!"
  /\ Len(todos) >= 2
  /\ Head(todos) \in rows
  /\ Head(todos).created_at = now
  /\ \A i \in 2..Len(todos) : todos[i].created_at < now
  /\ newTodo = <<>>

\* the positions of the add requests of the page that are in flight
AddsInFlight == {k \in 1..Len(reqs) : reqs[k].op = "add"}

\* C12: at most one add request of the page is in flight, and the submit
\* button is disabled (adding) exactly while one is: from the moment the
\* request is sent until its continuation has run, whether the request
\* succeeded, returned an error or threw.
C12_OneAddInFlight ==
  /\ Cardinality(AddsInFlight) <= 1
  /\ adding <=> AddsInFlight # {}

\* an add has failed, the button was enabled again, and the next add is in
\* flight with the button disabled
C12_Witness ==
  /\ log = "Error adding todo:"
  /\ adding
  /\ Cardinality(AddsInFlight) = 1
  /\ sent = 3

\* the store answers, in this step, the fetch of the page in flight at
\* position k with rows
FetchServed(k) ==
  /\ k \in 1..Len(reqs)
  /\ Len(reqs') = Len(reqs)
  /\ reqs[k].op = "fetch"
  /\ reqs[k].stage = "sent"
  /\ reqs'[k].stage = "done"
  /\ reqs'[k].outcome = "ok"

\* the items of a list
ItemsOf(list) == {list[i] : i \in 1..Len(list)}

\* no item of the list was created later than an item before it
NewestFirst(list) ==
  \A i, j \in 1..Len(list) :
    i < j => list[i].created_at >= list[j].created_at

\* C13: a fetch that succeeds returns exactly the rows the store holds for
\* the fetching user at the moment the query runs, each once, newest created
\* first, and leaves the table as it is; its continuation replaces the local
\* list by that answer and the page leaves Loading.
C13_FetchReplacesList ==
  [][/\ \A k \in 1..MaxInFlight : FetchServed(k) =>
          LET d == reqs'[k].data IN
          /\ ItemsOf(d) = OwnedBy(rows, reqs[k].uid)
          /\ Len(d) = Cardinality(ItemsOf(d))
          /\ NewestFirst(d)
          /\ rows' = rows
     /\ \A k \in 1..MaxInFlight :
          (HandlesSuccess(k) /\ reqs[k].op = "fetch") =>
            /\ todos' = reqs[k].data
            /\ loading' = FALSE]_vars

\* the first fetch has put the user's two stored todos on the page, the
\* newer one first, both not completed
C13_Witness ==
  /\ ~loading
  /\ sent = 1
  /\ reqs = <<>>
  /\ Len(todos) = 2
  /\ todos[1].created_at > todos[2].created_at
  /\ ItemsOf(todos) = OwnedBy(rows, user)
  /\ \A i \in 1..2 : ~todos[i].completed

\* a toggle of the item id is in flight
ToggleInFlight(id) ==
  \E k \in 1..Len(reqs) : reqs[k].op = "toggle" /\ reqs[k].id = id

\* C14 as stated: a toggle sends the negation of the flag the list shows and
\* its continuation negates the flag in the list, so one successful toggle
\* leaves store and list at the negation of the original value, and a second
\* one at the original value, when the list shows the stored flag at the
\* time the toggle is issued. An item the store holds therefore shows the
\* stored flag whenever no toggle of it is in flight, which is when the
\* response to its previous toggle has been applied and the next toggle
\* can be issued.
C14_ToggleTwiceRestores ==
  \A i \in 1..Len(todos) : \A r \in rows :
    (r.id = todos[i].id /\ ~ToggleInFlight(r.id))
      => todos[i].completed = r.completed

\* C15 as stated: the updated_at of a stored row never decreases, and every
\* update that changes a row leaves its updated_at at the time the store
\* read for the update, whatever the patch says: strictly later than the
\* row's previous updated_at and than its created_at.
C15_UpdatedAtAdvances ==
  [][\A q \in rows : \A r \in rows' :
       r.id = q.id =>
         /\ r.updated_at >= q.updated_at
         /\ r # q => /\ r.updated_at = now'
                     /\ r.updated_at > q.updated_at
                     /\ r.updated_at > r.created_at]_vars

\* C16 as stated: an insert whose title is the empty text is answered with
\* an error, and no stored row has an empty title.
C16_EmptyTitleRejected ==
  /\ (/\ reply.op = "insert"
      /\ "title" \in DOMAIN reply.arg
      /\ reply.arg.title = <<>>) => reply.error # NoError
  /\ \A r \in rows : r.title # <<>>

\* the todo id was deleted by the page: the request in flight at position k
\* was issued on a list that had it, the store has no such row, the list
\* does not show it, and no delete of it is still in flight
DeletedSince(k, id) ==
  /\ id \in IdsOf(reqs[k].list)
  /\ id \notin {r.id : r \in rows}
  /\ id \notin IdsOf(todos)
  /\ \A j \in 1..Len(reqs) : ~(reqs[j].op = "delete" /\ reqs[j].id = id)

\* C17 as stated: a todo that was deleted and has left the local list is not
\* in the list after the continuation of any add, toggle or delete of
\* another row that was in flight when the delete completed.
C17_DeletedStaysGone ==
  [][\A k \in 1..Len(reqs) : \A id \in IdsOf(reqs[k].list) :
       (/\ reqs' = Without(reqs, k)
        /\ reqs[k].op \in {"add", "toggle", "delete"}
        /\ reqs[k].id # id
        /\ DeletedSince(k, id)) => id \notin IdsOf(todos')]_vars

\* C18: no step takes the page back into Loading: not the start or the
\* continuation of an add, a toggle or a delete, and not the fetch that a
\* change of the identity starts, nor its continuation.
C18_LoadingNeverReturns ==
  [][~loading => ~loading']_vars

\* the identity has changed on a page that shows its list, the fetch for the
\* new identity is in flight, and the page still shows its list
C18_Witness ==
  /\ ~loading
  /\ user = "u2"
  /\ \E k \in 1..Len(reqs) : reqs[k].op = "fetch" /\ reqs[k].uid = "u2"
  /\ todos # <<>>

\* C20 as stated: whenever an identity is signed in and the page is not
\* Loading, every item of the local list is owned by that identity.
C20_ListOwnedByUser ==
  (~loading /\ user \in Users) =>
    \A i \in 1..Len(todos) : todos[i].user_id = user

\* C19: when every request in flight is eventually completed, the page
\* leaves Loading, whether its first fetch returns rows, returns an error or
\* throws; and when the step that leaves Loading is the continuation of a
\* failed fetch, the local list is empty after it.
C19_LeavesLoading ==
  /\ <>(~loading)
  /\ [][\A k \in 1..MaxInFlight :
          (loading /\ ~loading' /\ HandlesFailure(k)) => todos' = <<>>]_vars

\* the first fetch has failed while the store holds a todo of the user: the
\* page has left Loading with an empty list
C19_Witness ==
  /\ ~loading
  /\ log = "Error fetching todos:"
  /\ sent = 1
  /\ reqs = <<>>
  /\ todos = <<>>
  /\ OwnedBy(rows, user) # {}

====
